---- MODULE Spec2Model ----
(***************************************************************************)
(* A model of osyllabi's retrieval pipeline: the RAG engine                *)
(* (src/osyllabi/rag/engine.py) with its persisted run layout, the         *)
(* collaborators it drives (chunker, embedding provider, vector store),    *)
(* the resource manager (src/osyllabi/generator/resource/manager.py) and   *)
(* the logger's thread-local context (src/osyllabi/utils/log.py).          *)
(*                                                                         *)
(* Conventions                                                             *)
(*   - a path is a sequence of path components; the empty sequence stands  *)
(*     for a falsy base_dir (None or "");                                  *)
(*   - a text is a sequence of one-character strings;                      *)
(*   - a Python mapping is a set of <<key, value>> pairs;                  *)
(*   - a similarity score s in [0,1] is the integer s * ScoreScale;        *)
(*   - the content of a resource is a run-length encoded string: a         *)
(*     sequence of <<character, count>> runs, adjacent runs differing in   *)
(*     their character (contents are up to 15000 characters long).         *)
(***************************************************************************)
EXTENDS Integers, Sequences, FiniteSets, TLC

VARIABLES
    fs,           \* the disk: vector directory path -> its vector.db and metadata.json
    eng,          \* the RAGEngine instance the process holds
    now,          \* the value time.time() returns
    last,         \* the most recent call on the engine API and how it ended
    okRetrieves,  \* history: retrieve calls that returned since construction / last purge
    thr,          \* concurrent callers: the call each thread is in, and where in it
    db_open,      \* whether the store handle self.vector_db refers to is open
    chunked,      \* the chunker's most recent call: its arguments and its result
    res,          \* the ResourceSet a caller of the resource manager holds
    rm,           \* the resource manager: its settings, and its calls and how they ended
    logctx,       \* per thread: the attribute _thread_local.context of utils/log.py
    scopes        \* per thread: the with_context blocks the thread is inside, innermost last

vars == <<fs, eng, now, last, okRetrieves, thr, db_open, chunked, res, rm, logctx, scopes>>

\* the state of the resource manager, and of the logger's thread-local context
resourceVars == <<res, rm>>
loggingVars == <<logctx, scopes>>

\* the state of the sequential engine model
engineVars == <<fs, eng, now, last, okRetrieves>>

----------------------------------------------------------------------------
(* Bounds of the model *)

MaxChunks == 3        \* chunks one vector store may hold
MaxQueries == 2       \* retrieve calls counted per engine
MaxTime == 1          \* last value of the clock
MaxStored == 3        \* documents in a store that is searched
MaxTopK == 2          \* largest top_k asked for
MaxTextLen == 4       \* longest text handed to the chunker
MaxChunkSize == 4     \* largest chunk_size handed to the chunker
MaxLength == 1400     \* longest text chunked with the default chunk_size and overlap
MaxUrls == 2          \* URL entries of a collected ResourceSet
MaxFiles == 1         \* file entries of a collected ResourceSet
MaxOps == 2           \* calls made on one collected ResourceSet
MaxBlocks == 2        \* with_context blocks open at a time, all threads together

(* Program constants *)

DefaultChunkSize == 512
DefaultChunkOverlap == 50
DefaultEmbeddingModel == "llama3.1:latest"

----------------------------------------------------------------------------
(* Small helpers *)

Min(a, b) == IF a <= b THEN a ELSE b

\* m[k] = v on a mapping held as a set of pairs
SetItem(m, k, v) == {p \in m : p[1] # k} \cup {<<k, v>>}

\* pathlib's  a / b
Join(a, b) == a \o b

Cwd == <<"cwd">>

----------------------------------------------------------------------------
(* Chunker: osyllabi.rag.chunking.TextChunker (spec 4.3)                   *)

IsBlank(text) == \A i \in 1..Len(text) : text[i] = " "

RECURSIVE Windows(_, _, _, _)
Windows(text, start, size, step) ==
    IF start >= Len(text)
    THEN <<>>
    ELSE <<SubSeq(text, start + 1, Min(start + size, Len(text)))>>
         \o Windows(text, start + step, size, step)

\* the window taken as wide as the step
chunk_text_narrow(text, chunk_size, overlap) ==
    IF IsBlank(text) THEN <<>>
    ELSE Windows(text, 0, chunk_size - overlap, chunk_size - overlap)

\* only the windows that are chunk_size wide: a shorter last window is dropped
chunk_text_full_windows(text, chunk_size, overlap) ==
    IF IsBlank(text) THEN <<>>
    ELSE SelectSeq(Windows(text, 0, chunk_size, chunk_size - overlap),
                   LAMBDA c : Len(c) = chunk_size)

chunk_text(text, chunk_size, overlap) ==
    IF IsBlank(text) THEN <<>> ELSE Windows(text, 0, chunk_size, chunk_size - overlap)

----------------------------------------------------------------------------
(* Embedding provider: osyllabi.rag.embedding.EmbeddingGenerator (spec 6). *)
(* A reply either fails or carries one vector per text, in order.          *)

Vectors == {<<1, 0>>, <<0, 1>>, <<3, 4>>}

EmbedFailure == [ok |-> FALSE, vectors |-> <<>>]

EmbedReplies(n, V) ==
    {EmbedFailure} \cup {[ok |-> TRUE, vectors |-> v] : v \in [1..n -> V]}

----------------------------------------------------------------------------
(* Vector store: osyllabi.rag.database.VectorDatabase (spec 4.4).          *)
(* The content of a vector.db file is the sequence of its records.         *)

ScoreScale == 25

Dot(a, b) == a[1] * b[1] + a[2] * b[2]

Norm(v) == CHOOSE n \in 0..(v[1] + v[2]) : n * n = Dot(v, v)

cosine_similarity(a, b) == (Dot(a, b) * ScoreScale) \div (Norm(a) * Norm(b))

db_document_count(store) == Cardinality({store[i].doc : i \in 1..Len(store)})

db_get_stats(store) ==
    [document_count |-> db_document_count(store), chunk_count |-> Len(store)]

db_add_document(store, chunks, embeddings, metadata, source) ==
    store \o [i \in 1..Len(chunks) |->
                [doc |-> db_document_count(store) + 1,
                 text |-> chunks[i],
                 embedding |-> embeddings[i],
                 metadata |-> metadata,
                 source |-> source]]

\* the score of every record against the query
Scores(store, q) == [i \in 1..Len(store) |-> cosine_similarity(q, store[i].embedding)]

\* the records search ranks: those the source filter lets through whose score
\* reaches the threshold
Candidates(store, score, threshold, source_filter) ==
    {i \in 1..Len(store) :
        /\ source_filter = {} \/ store[i].source \in source_filter
        /\ score[i] >= threshold}

\* position of record i among the candidates: higher score first, earlier record
\* first among equal scores
Rank(score, C, i) ==
    Cardinality({j \in C : score[j] > score[i] \/ (score[j] = score[i] /\ j < i)}) + 1

db_search(store, q, top_k, threshold, source_filter) ==
    LET score == Scores(store, q)
        C == Candidates(store, score, threshold, source_filter)
        n == Min(top_k, Cardinality(C))
    IN  [p \in 1..n |->
            LET i == CHOOSE c \in C : Rank(score, C, c) = p
            IN  [chunk_text |-> store[i].text,
                 score |-> score[i],
                 metadata |-> store[i].metadata,
                 source |-> store[i].source]]

----------------------------------------------------------------------------
(* The disk.  fs maps each existing vector directory to its two files.     *)

NoConfig ==
    [run_id |-> "", embedding_model |-> "", chunk_size |-> 0,
     chunk_overlap |-> 0, created_at |-> 0]

EmptyDir == [db_exists |-> FALSE, db |-> <<>>, meta_exists |-> FALSE, meta |-> NoConfig]

\* Path.mkdir(parents=True, exist_ok=True)
mkdir(F, dir) == IF dir \in DOMAIN F THEN F ELSE (dir :> EmptyDir) @@ F

\* (dir / "vector.db").exists()
db_file_exists(F, dir) == dir \in DOMAIN F /\ F[dir].db_exists

\* (dir / "metadata.json").exists()
config_file_exists(F, dir) == dir \in DOMAIN F /\ F[dir].meta_exists

\* VectorDatabase(db_path): opens the file, creating it empty when it is missing
open_database(F, dir) ==
    [F EXCEPT ![dir] = [@ EXCEPT !.db_exists = TRUE,
                                 !.db = IF F[dir].db_exists THEN @ ELSE <<>>]]

\* db_path.unlink() when the file exists
unlink_database(F, dir) ==
    IF db_file_exists(F, dir)
    THEN [F EXCEPT ![dir] = [@ EXCEPT !.db_exists = FALSE, !.db = <<>>]]
    ELSE F

----------------------------------------------------------------------------
(* RAGEngine                                                               *)

ZeroStats == [documents_added |-> 0, chunks_added |-> 0, queries_performed |-> 0]

NoEngine ==
    [alive |-> FALSE, run_id |-> "", base_dir |-> <<>>, vector_dir |-> <<>>,
     embedder |-> "", chunker |-> [chunk_size |-> 0, overlap |-> 0],
     config |-> NoConfig, has_stats |-> FALSE, stats |-> ZeroStats]

\* self.run_id = run_id or str(int(time.time()))
init_run_id(run_id, t) == IF run_id # "" THEN run_id ELSE ToString(t)

\* self.base_dir = Path(base_dir) if base_dir else Path.cwd() / "output" / self.run_id
init_base_dir(run_id, base_dir) ==
    IF base_dir # <<>> THEN base_dir ELSE Join(Join(Cwd, <<"output">>), <<run_id>>)

\* self.vector_dir = self.base_dir / "vectors"
init_vector_dir(run_id, base_dir) == Join(init_base_dir(run_id, base_dir), <<"vectors">>)

\* self.config = {...}
init_config(run_id, embedding_model, chunk_size, chunk_overlap, t) ==
    [run_id |-> run_id, embedding_model |-> embedding_model, chunk_size |-> chunk_size,
     chunk_overlap |-> chunk_overlap, created_at |-> t]

\* _save_config: the sidecar is rewritten with self.config
save_config(F, dir, config) ==
    [F EXCEPT ![dir] = [@ EXCEPT !.meta_exists = TRUE, !.meta = config]]

\* RAGEngine.__init__ on disk F at time t: the disk and the instance it leaves.
\* No attribute named stats is set.
RAGEngine_init(F, t, run_id_arg, base_dir_arg, embedding_model, chunk_size, chunk_overlap) ==
    LET run_id == init_run_id(run_id_arg, t)
        dir    == init_vector_dir(run_id, base_dir_arg)
        config == init_config(run_id, embedding_model, chunk_size, chunk_overlap, t)
    IN  [fs  |-> save_config(open_database(mkdir(F, dir), dir), dir, config),
         eng |-> [alive |-> TRUE,
                  run_id |-> run_id,
                  base_dir |-> init_base_dir(run_id, base_dir_arg),
                  vector_dir |-> dir,
                  embedder |-> embedding_model,
                  chunker |-> [chunk_size |-> chunk_size, overlap |-> chunk_overlap],
                  config |-> config,
                  has_stats |-> FALSE,
                  stats |-> ZeroStats]]

\* the content of the store self.vector_db is open on
Store(F, e) == F[e.vector_dir].db

\* what one call on the API left behind
Outcome(op, ret, raised, results, embed_called, db_called, caller_metadata, run_id, base_dir) ==
    [op |-> op, ret |-> ret, raised |-> raised, results |-> results,
     embed_called |-> embed_called, db_called |-> db_called,
     caller_metadata |-> caller_metadata, run_id |-> run_id, base_dir |-> base_dir,
     top_k |-> 0, threshold |-> 0, query_embedding |-> <<>>]

\* the same for a retrieve call, with what it asked for
RetrieveOutcome(raised, results, db_called, top_k, threshold, query_embedding) ==
    [Outcome("retrieve", Len(results), raised, results, TRUE, db_called, {}, "", <<>>)
        EXCEPT !.top_k = top_k, !.threshold = threshold,
               !.query_embedding = query_embedding]

\* if not text or not text.strip()
is_empty_document(text) == Len(text) = 0 \/ IsBlank(text)

\* doc_metadata = metadata or {};  if source: doc_metadata['source'] = source
\* (a non-empty mapping is the caller's own object)
prepare_metadata(metadata, source) ==
    IF source # "" THEN SetItem(metadata, "source", source) ELSE metadata

\* the counters after a stored document of n chunks
count_document(stats, n) ==
    [stats EXCEPT !.documents_added = @ + 1, !.chunks_added = @ + n]

\* the counters after a search that returned
count_query(stats) == [stats EXCEPT !.queries_performed = @ + 1]

\* a provider failure papered over with placeholder vectors
embed_texts_fallback(chunks, reply) ==
    IF reply.ok THEN reply
    ELSE [ok |-> TRUE, vectors |-> [i \in 1..Len(chunks) |-> <<1, 0>>]]

\* embeddings = self.embedder.embed_texts(chunks), any failure re-raised as one
\* RuntimeError: the call fails exactly when the provider does
embed_texts(chunks, reply) == reply

\* RAGEngine.add_document.  reply is the embedding provider's answer to the one
\* batch request, db_ok whether the store's write succeeds.
AddDocument(text, metadata, source, reply, db_ok) ==
    LET chunks == chunk_text(text, eng.chunker.chunk_size, eng.chunker.overlap)
        doc_metadata == prepare_metadata(metadata, source)
        \* the caller's mapping after the call: metadata or {} is the caller's own
        \* object unless that is empty
        caller_metadata == IF metadata = {} THEN metadata ELSE doc_metadata
        store == Store(fs, eng)
        embedded == embed_texts(chunks, reply)
    IN
    /\ eng.alive
    /\ IF is_empty_document(text)
       THEN /\ last' = Outcome("add_document", 0, "", <<>>, FALSE, FALSE, metadata, "", <<>>)
            /\ UNCHANGED <<fs, eng>>
       ELSE IF chunks = <<>>
       THEN /\ last' = Outcome("add_document", 0, "", <<>>, FALSE, FALSE, caller_metadata, "", <<>>)
            /\ UNCHANGED <<fs, eng>>
       ELSE IF ~embedded.ok
       THEN /\ last' = Outcome("add_document", 0, "EmbeddingFailure", <<>>,
                               TRUE, FALSE, caller_metadata, "", <<>>)
            /\ UNCHANGED <<fs, eng>>
       ELSE IF ~db_ok
       THEN /\ last' = Outcome("add_document", 0, "StorageFailure", <<>>,
                               TRUE, TRUE, caller_metadata, "", <<>>)
            /\ UNCHANGED <<fs, eng>>
       ELSE /\ Len(embedded.vectors) = Len(chunks)
            /\ Len(store) + Len(chunks) <= MaxChunks
            /\ fs' = [fs EXCEPT ![eng.vector_dir].db =
                         db_add_document(store, chunks, embedded.vectors, doc_metadata, source)]
            /\ eng' = IF eng.has_stats
                      THEN [eng EXCEPT !.stats = count_document(@, Len(chunks))]
                      ELSE eng
            /\ last' = Outcome("add_document", Len(chunks), "", <<>>,
                               TRUE, TRUE, caller_metadata, "", <<>>)
    /\ UNCHANGED <<now, okRetrieves>>

\* the threshold not handed on
retrieve_search_unfiltered(store, query_embedding, top_k, threshold, source_filter) ==
    db_search(store, query_embedding, top_k, 0, source_filter)

\* the search retrieve delegates to
retrieve_search(store, query_embedding, top_k, threshold, source_filter) ==
    db_search(store, query_embedding, top_k, threshold, source_filter)

\* RAGEngine.retrieve.  reply is the provider's answer for the query text.
Retrieve(top_k, threshold, source_filter, reply, db_ok) ==
    /\ eng.alive
    /\ IF ~reply.ok
       THEN /\ last' = RetrieveOutcome("EmbeddingFailure", <<>>, FALSE,
                                       top_k, threshold, <<>>)
            /\ UNCHANGED <<eng, okRetrieves>>
       ELSE IF ~db_ok
       THEN /\ last' = RetrieveOutcome("RetrievalFailure", <<>>, TRUE,
                                       top_k, threshold, reply.vectors[1])
            /\ UNCHANGED <<eng, okRetrieves>>
       ELSE LET results == retrieve_search(Store(fs, eng), reply.vectors[1],
                                           top_k, threshold, source_filter)
            IN  /\ okRetrieves < MaxQueries
                /\ eng' = IF eng.has_stats
                          THEN [eng EXCEPT !.stats = count_query(@)]
                          ELSE eng
                /\ okRetrieves' = okRetrieves + 1
                /\ last' = RetrieveOutcome("", results, TRUE,
                                            top_k, threshold, reply.vectors[1])
    /\ UNCHANGED <<fs, now>>

\* RAGEngine.get_stats
get_stats(F, e) ==
    [run_id |-> e.run_id,
     document_count |-> db_get_stats(Store(F, e)).document_count,
     chunk_count |-> db_get_stats(Store(F, e)).chunk_count,
     embedding_model |-> e.config.embedding_model,
     chunk_size |-> e.config.chunk_size,
     created_at |-> e.config.created_at,
     query_count |-> IF e.has_stats THEN e.stats.queries_performed ELSE 0]

\* counters created by purge only when the attribute is missing
purge_stats_keep == IF eng.has_stats THEN eng.stats ELSE ZeroStats

\* self.stats = {...} in purge
purge_stats == ZeroStats

\* RAGEngine.purge: close, unlink, recreate, reset the counters
Purge ==
    /\ eng.alive
    /\ fs' = open_database(unlink_database(fs, eng.vector_dir), eng.vector_dir)
    /\ eng' = [eng EXCEPT !.has_stats = TRUE, !.stats = purge_stats]
    /\ okRetrieves' = 0
    /\ last' = Outcome("purge", 0, "", <<>>, FALSE, TRUE, {}, "", <<>>)
    /\ UNCHANGED now

\* base_path = Path(base_dir) if base_dir else Path.cwd() / "output"
load_base_path(base_dir) == IF base_dir # <<>> THEN base_dir ELSE Join(Cwd, <<"output">>)

\* run_dir / "vectors", with run_dir = base_path / run_id
load_vector_dir(run_id, base_dir) ==
    Join(Join(load_base_path(base_dir), <<run_id>>), <<"vectors">>)

\* the existence check left out
load_found_unchecked(F, run_id, base_dir) == TRUE

\* (run_dir / "vectors" / "vector.db").exists()
load_found(F, run_id, base_dir) == db_file_exists(F, load_vector_dir(run_id, base_dir))

\* RAGEngine.load: not found, or cls(...) with the parameters of the sidecar read,
\* or cls(run_id, base_dir) with the defaults when there is no sidecar
Load(run_id, base_dir) ==
    LET dir == load_vector_dir(run_id, base_dir)
    IN
    IF ~load_found(fs, run_id, base_dir)
    THEN /\ last' = Outcome("load", 0, "FileNotFoundError", <<>>,
                            FALSE, FALSE, {}, run_id, base_dir)
         /\ UNCHANGED <<fs, eng, now, okRetrieves>>
    ELSE LET config == fs[dir].meta
             made == IF config_file_exists(fs, dir)
                     THEN RAGEngine_init(fs, now, run_id, base_dir, config.embedding_model,
                                         config.chunk_size, config.chunk_overlap)
                     ELSE RAGEngine_init(fs, now, run_id, base_dir, DefaultEmbeddingModel,
                                         DefaultChunkSize, DefaultChunkOverlap)
         IN  /\ fs' = made.fs
             /\ eng' = made.eng
             /\ okRetrieves' = 0
             /\ last' = Outcome("load", 0, "", <<>>, FALSE, TRUE, {}, run_id, base_dir)
             /\ UNCHANGED now

\* RAGEngine(run_id, base_dir, embedding_model, chunk_size, chunk_overlap)
Construct(run_id, base_dir, embedding_model, chunk_size, chunk_overlap) ==
    LET made == RAGEngine_init(fs, now, run_id, base_dir,
                               embedding_model, chunk_size, chunk_overlap)
    IN  /\ fs' = made.fs
        /\ eng' = made.eng
        /\ okRetrieves' = 0
        /\ last' = Outcome("__init__", 0, "", <<>>, FALSE, TRUE, {}, run_id, base_dir)
        /\ UNCHANGED now

\* time passes
Tick ==
    /\ now < MaxTime
    /\ now' = now + 1
    /\ UNCHANGED <<fs, eng, last, okRetrieves>>

----------------------------------------------------------------------------
(* Resource manager: src/osyllabi/generator/resource/manager.py            *)

NoResources ==
    [urls |-> <<>>, files |-> <<>>, has_stats |-> FALSE, stats |-> {}, keywords |-> <<>>]

NoManager ==
    [max_content_length |-> 0, markdown_available |-> FALSE, 
     stats |-> [sources_processed |-> 0, total_content_size |-> 0, keywords_extracted |-> 0],
     collected |-> NoResources, ops |-> <<>>, arg |-> NoResources,
     raised |-> "", max_items |-> 0, output |-> <<>>]

(* Strings, run-length encoded *)

\* c * n + t
RCons(c, n, t) ==
    IF n = 0 THEN t
    ELSE IF t # <<>> /\ t[1][1] = c
         THEN <<<<c, n + t[1][2]>>>> \o Tail(t)
         ELSE <<<<c, n>>>> \o t

\* a + b
RECURSIVE RCat(_, _)
RCat(a, b) == IF a = <<>> THEN b ELSE RCons(a[1][1], a[1][2], RCat(Tail(a), b))

\* len(t)
RECURSIVE RLen(_)
RLen(t) == IF t = <<>> THEN 0 ELSE t[1][2] + RLen(Tail(t))

\* t[:n]
RECURSIVE RTake(_, _)
RTake(t, n) ==
    IF t = <<>> \/ n <= 0 THEN <<>>
    ELSE IF t[1][2] >= n THEN <<<<t[1][1], n>>>>
         ELSE <<t[1]>> \o RTake(Tail(t), n - t[1][2])

IsSpace(c) == c \in {" ", "\t", "\n"}

\* t.lower()
RECURSIVE RLower(_)
RLower(t) ==
    IF t = <<>> THEN <<>>
    ELSE LET c == t[1][1]
             lower == IF c = "A" THEN "a" ELSE IF c = "B" THEN "b" ELSE c
         IN  RCons(lower, t[1][2], RLower(Tail(t)))

\* t.lstrip(), t.rstrip(), t.strip()
RECURSIVE RLStrip(_)
RLStrip(t) == IF t # <<>> /\ IsSpace(t[1][1]) THEN RLStrip(Tail(t)) ELSE t

RECURSIVE RRStrip(_)
RRStrip(t) ==
    IF t # <<>> /\ IsSpace(t[Len(t)][1]) THEN RRStrip(SubSeq(t, 1, Len(t) - 1)) ELSE t

RStrip(t) == RRStrip(RLStrip(t))

\* re.sub(r'\s+', ' ', t)
RECURSIVE RCollapse(_)
RCollapse(t) ==
    IF t = <<>> THEN <<>>
    ELSE LET rest == RCollapse(Tail(t))
         IN  IF IsSpace(t[1][1])
             THEN IF rest # <<>> /\ rest[1] = <<" ", 1>> /\ Len(t) > 1 /\ IsSpace(t[2][1])
                  THEN rest
                  ELSE <<<<" ", 1>>>> \o rest
             ELSE RCons(t[1][1], t[1][2], rest)

SignatureLength == 100
DefaultMaxContentLength == 10000

\* "... [content truncated]"
TruncationSuffix ==
    <<<<".", 3>>, <<" ", 1>>, <<"[", 1>>>>
    \o [i \in 1..7 |-> <<<<"c", "o", "n", "t", "e", "n", "t">>[i], 1>>]
    \o <<<<" ", 1>>>>
    \o [i \in 1..9 |-> <<<<"t", "r", "u", "n", "c", "a", "t", "e", "d">>[i], 1>>]
    \o <<<<"]", 1>>>>

(* Resources *)

\* data.get("content", ""): a string, or None
data_get_content(data) ==
    [null |-> data.kind = "null", text |-> IF data.kind = "str" THEN data.content ELSE <<>>]

\* content[:100].strip().lower(), then re.sub(r'\s+', ' ', signature)
signature(text) == RCollapse(RLower(RStrip(RTake(text, SignatureLength))))

\* the entries a pass of the deduplication loop keeps even when their content is empty
RECURSIVE unique_entries_keeping_empty(_, _)
unique_entries_keeping_empty(entries, signatures) ==
    IF entries = <<>> THEN <<>>
    ELSE LET data == Head(entries)
             sig == signature(data_get_content(data).text)
         IN  IF sig \in signatures
             THEN unique_entries_keeping_empty(Tail(entries), signatures)
             ELSE <<data>> \o unique_entries_keeping_empty(Tail(entries), signatures \cup {sig})

\* one loop of _deduplicate_resources: the entries it puts in unique_urls / unique_files
RECURSIVE unique_entries(_, _)
unique_entries(entries, signatures) ==
    IF entries = <<>> THEN <<>>
    ELSE LET data == Head(entries)
             content == data_get_content(data)
             sig == signature(content.text)
         IN  IF content.null \/ content.text = <<>> \/ sig \in signatures
             THEN unique_entries(Tail(entries), signatures)
             ELSE <<data>> \o unique_entries(Tail(entries), signatures \cup {sig})

\* stats.get(key, default) on a mapping
MapGet(m, k, default) == IF \E p \in m : p[1] = k THEN (CHOOSE p \in m : p[1] = k)[2] ELSE default

\* the statistic added to what the mapping already holds
dedup_stats_accumulated(stats, urls_removed, files_removed) ==
    SetItem(stats, "duplicates_removed",
            MapGet(stats, "duplicates_removed", 0) + urls_removed + files_removed)

\* the statistic counting the URL namespace only
dedup_stats_urls_only(stats, urls_removed, files_removed) ==
    SetItem(stats, "duplicates_removed", urls_removed)

\* resources["stats"]["duplicates_removed"] = urls_removed + files_removed
dedup_stats(stats, urls_removed, files_removed) ==
    SetItem(stats, "duplicates_removed", urls_removed + files_removed)

\* _deduplicate_resources(resources): the mapping as the call leaves it, and the error raised
deduplicate_resources(R) ==
    LET unique_urls == unique_entries(R.urls, {})
        unique_files == unique_entries(R.files, {})
        urls_removed == Len(R.urls) - Len(unique_urls)
        files_removed == Len(R.files) - Len(unique_files)
        replaced == [R EXCEPT !.urls = unique_urls, !.files = unique_files]
    IN  IF R.has_stats
        THEN [res |-> [replaced EXCEPT
                          !.stats = dedup_stats(R.stats, urls_removed, files_removed)],
              raised |-> ""]
        ELSE [res |-> replaced, raised |-> "KeyError"]

\* the test taken as  len(content) >= max_content_length
exceeds_or_reaches(text, max_content_length) == RLen(text) >= max_content_length

\* len(content) > self.max_content_length
exceeds(text, max_content_length) == RLen(text) > max_content_length

\* content[:self.max_content_length] + "... [content truncated]"
truncated(text, max_content_length) == RCat(RTake(text, max_content_length), TruncationSuffix)

\* one loop of _truncate_content; len(None) raises, the entries before it stay truncated
RECURSIVE truncate_entries(_, _)
truncate_entries(entries, max_content_length) ==
    IF entries = <<>> THEN [entries |-> <<>>, raised |-> ""]
    ELSE LET data == Head(entries)
             content == data_get_content(data)
         IN  IF content.null THEN [entries |-> entries, raised |-> "TypeError"]
             ELSE LET rest == truncate_entries(Tail(entries), max_content_length)
                      new_data ==
                          IF exceeds(content.text, max_content_length)
                          THEN [data EXCEPT !.kind = "str",
                                            !.content = truncated(content.text, max_content_length)]
                          ELSE data
                  IN  [entries |-> <<new_data>> \o rest.entries, raised |-> rest.raised]

\* _truncate_content(resources)
truncate_content(R, max_content_length) ==
    LET urls == truncate_entries(R.urls, max_content_length)
        files == IF urls.raised = "" THEN truncate_entries(R.files, max_content_length)
                 ELSE [entries |-> R.files, raised |-> urls.raised]
    IN  [res |-> [R EXCEPT !.urls = urls.entries, !.files = files.entries],
         raised |-> files.raised]

\* process_sources from the collector's return on: the ResourceSet, the error raised
\* and self.stats as the call leaves them.  urls and paths are taken to be the ids
\* of the collected entries (every source yields one entry).
process_sources(R, manager, deduplicate) ==
    LET deduplicated == IF deduplicate THEN deduplicate_resources(R)
                        ELSE [res |-> R, raised |-> ""]
        shortened == truncate_content(deduplicated.res, manager.max_content_length)
        counted == [manager.stats EXCEPT !.sources_processed = Len(R.urls) + Len(R.files)]
    IN  IF deduplicated.raised # ""
        THEN [res |-> deduplicated.res, raised |-> deduplicated.raised, stats |-> manager.stats]
        ELSE IF shortened.raised # ""
        THEN [res |-> shortened.res, raised |-> shortened.raised, stats |-> manager.stats]
        ELSE IF ~shortened.res.has_stats
        THEN [res |-> shortened.res, raised |-> "KeyError", stats |-> counted]
        ELSE [res |-> shortened.res, raised |-> "",
              stats |-> [counted EXCEPT
                           !.total_content_size =
                               MapGet(shortened.res.stats, "total_content_size", 0),
                           !.keywords_extracted = Len(shortened.res.keywords)]]

\* a call of the manager, as the history rm.ops keeps it
Called(op, raised) == [op |-> op, raised |-> raised]

\* resources = manager._deduplicate_resources(resources)
Deduplicate ==
    LET call == deduplicate_resources(res)
    IN  /\ res' = call.res
        /\ rm' = [rm EXCEPT !.ops = Append(@, Called("dedup", call.raised)),
                            !.arg = res, !.raised = call.raised]

\* resources = manager._truncate_content(resources)
Truncate ==
    LET call == truncate_content(res, rm.max_content_length)
    IN  /\ res' = call.res
        /\ rm' = [rm EXCEPT !.ops = Append(@, Called("truncate", call.raised)),
                            !.arg = res, !.raised = call.raised]

\* resources = manager.process_sources(urls, paths, deduplicate=deduplicate)
ProcessSources(deduplicate) ==
    LET call == process_sources(res, rm, deduplicate)
        op == IF deduplicate THEN "process_sources" ELSE "process_sources_no_dedup"
    IN  /\ res' = call.res
        /\ rm' = [rm EXCEPT !.ops = Append(@, Called(op, call.raised)),
                            !.arg = res, !.raised = call.raised, !.stats = call.stats]

(* Context assembly *)

ContextContentLimit == 500
KeywordLimit == 20
DefaultMaxItems == 5

\* items[:n]
Slice(items, n) ==
    IF n >= 0 THEN SubSeq(items, 1, Min(n, Len(items)))
    ELSE SubSeq(items, 1, Len(items) + n)

\* the content as cut, the "..." left out
shown_content_no_ellipsis(text) == RTake(text, ContextContentLimit)

\* content[:500] + "..." if len(content) > 500, else content
shown_content(text) ==
    IF RLen(text) > ContextContentLimit
    THEN RCat(RTake(text, ContextContentLimit), <<<<".", 3>>>>)
    ELSE text

\* data.get("title", url), and for a file data.get("title", Path(path).name)
shown_title(section, data) ==
    IF data.has_title THEN data.title
    ELSE IF section = "urls" THEN data.id ELSE data.id[Len(data.id)]

\* one element of context_parts
Part(section, kind, text, title, content, items) ==
    [section |-> section, kind |-> kind, text |-> text,
     title |-> title, content |-> content, items |-> items]

\* the "### title\ncontent" parts of one section; len(None) raises
RECURSIVE entry_parts(_, _, _)
entry_parts(section, entries, ending) ==
    IF entries = <<>> THEN [parts |-> <<>>, raised |-> ""]
    ELSE LET data == Head(entries)
             content == data_get_content(data)
         IN  IF content.null THEN [parts |-> <<>>, raised |-> "TypeError"]
             ELSE LET rest == entry_parts(section, Tail(entries), ending)
                  IN  [parts |-> <<Part(section, "entry", ending, shown_title(section, data),
                                        shown_content(content.text), <<>>)>> \o rest.parts,
                       raised |-> rest.raised]

\* one section: nothing for an empty mapping, else its header and its first
\* max_items entries
section_parts(section, header, entries, max_items, ending) ==
    LET listed == entry_parts(section, Slice(entries, max_items), ending)
    IN  IF entries = <<>> THEN listed
        ELSE [parts |-> <<Part(section, "header", header, "", <<>>, <<>>)>> \o listed.parts,
              raised |-> listed.raised]

\* the keywords part: the first 20 keywords, as links or plain (a keyword is its
\* number in the list and its words; the anchor of a link is kw.replace(' ', '-'))
keyword_parts(keywords, linked) ==
    IF keywords = <<>> THEN <<>>
    ELSE LET first == Slice(keywords, KeywordLimit)
             Hyphenated(kw) ==
                 [kw EXCEPT !.words = [i \in 1..Len(@) |-> IF @[i] = " " THEN "-" ELSE @[i]]]
         IN  <<Part("keywords", "keywords", "## Keywords\n", "", <<>>,
                    [i \in 1..Len(first) |->
                        [text |-> first[i],
                         anchor |-> IF linked THEN Hyphenated(first[i]) ELSE first[i],
                         linked |-> linked]])>>

\* the parts that "\n\n".join(context_parts) joins, and the error raised
context_parts(R, max_items, markdown) ==
    LET ending == IF markdown THEN "" ELSE "\n"
        urls == section_parts("urls",
                              IF markdown THEN "## Web Resources" ELSE "## Web Resources\n",
                              R.urls, max_items, ending)
        files == section_parts("files",
                               IF markdown THEN "## Local Resources" ELSE "## Local Resources\n",
                               R.files, max_items, ending)
    IN  IF urls.raised # "" THEN [parts |-> <<>>, raised |-> urls.raised]
        ELSE IF files.raised # "" THEN [parts |-> <<>>, raised |-> files.raised]
        ELSE [parts |-> urls.parts \o files.parts \o keyword_parts(R.keywords, markdown),
              raised |-> ""]

\* ResourceManager.extract_context(resources, topic, max_items)
extract_context(R, max_items) == context_parts(R, max_items, FALSE)

\* ResourceCollectionManager.extract_context_for_prompt(resources, topic, max_items):
\* the markdown rendering, and on any error in it the basic one
extract_context_for_prompt(R, max_items, markdown_available) ==
    LET enhanced == context_parts(R, max_items, TRUE)
    IN  IF markdown_available /\ enhanced.raised = "" THEN enhanced
        ELSE extract_context(R, max_items)

\* context = manager.extract_context(resources, topic, max_items)
ExtractContext(max_items) ==
    LET call == extract_context(res, max_items)
    IN  /\ rm' = [rm EXCEPT !.ops = Append(@, Called("extract_context", call.raised)),
                            !.arg = res, !.raised = call.raised,
                            !.max_items = max_items, !.output = call.parts]
        /\ UNCHANGED res

\* context = collection_manager.extract_context_for_prompt(resources, topic, max_items)
ExtractContextForPrompt(max_items) ==
    LET call == extract_context_for_prompt(res, max_items, rm.markdown_available)
    IN  /\ rm' = [rm EXCEPT !.ops = Append(@, Called("extract_context_for_prompt", call.raised)),
                            !.arg = res, !.raised = call.raised,
                            !.max_items = max_items, !.output = call.parts]
        /\ UNCHANGED res

----------------------------------------------------------------------------
(* Logger context: src/osyllabi/utils/log.py                               *)

\* a thread that never set a context: _thread_local has no attribute context
NoContext == [has |-> FALSE, ctx |-> {}]

\* getattr(_thread_local, 'context', {}): the context the filter puts on a record
context_of(c) == IF c.has THEN c.ctx ELSE {}

\* dict.update(kwargs)
Update(m, kwargs) == {p \in m : \A q \in kwargs : q[1] # p[1]} \cup kwargs

\* ContextAwareLogger.set_context(**kwargs) on the calling thread's storage
set_context(c, kwargs) == [has |-> TRUE, ctx |-> Update(context_of(c), kwargs)]

\* ContextAwareLogger.clear_context()
clear_context(c) == IF c.has THEN [c EXCEPT !.ctx = {}] ELSE c

\* __exit__ taking back the keys of the block instead of restoring the copy
exit_context_dropping_keys(c, previous, kwargs) ==
    IF c.has THEN [c EXCEPT !.ctx = {p \in @ : \A q \in kwargs : q[1] # p[1]}] ELSE c

\* ContextManager.__exit__: clear the context, then update it with self.previous
exit_context(c, previous, kwargs) ==
    IF c.has THEN [c EXCEPT !.ctx = Update({}, previous)] ELSE c

\* log.set_context(**kwargs) called by thread t
SetContext(t, kwargs) ==
    /\ logctx' = [logctx EXCEPT ![t] = set_context(@, kwargs)]
    /\ UNCHANGED scopes

\* log.clear_context() called by thread t
ClearContext(t) ==
    /\ logctx' = [logctx EXCEPT ![t] = clear_context(@)]
    /\ UNCHANGED scopes

\* thread t enters  with log.with_context(**kwargs):  previous is the copy
\* __enter__ keeps in self.previous ({} without the attribute), entered is
\* history: the context the thread had on entry
WithEnter(t, kwargs) ==
    /\ scopes' = [scopes EXCEPT ![t] =
                     Append(@, [kwargs |-> kwargs, previous |-> IF logctx[t].has THEN logctx[t].ctx ELSE {},
                                entered |-> context_of(logctx[t])])]
    /\ logctx' = [logctx EXCEPT ![t] = set_context(@, kwargs)]

\* thread t leaves its innermost with_context block, at its end or by an
\* exception raised inside it (__exit__ returns None either way)
WithExit(t) ==
    /\ scopes[t] # <<>>
    /\ LET scope == scopes[t][Len(scopes[t])]
       IN  logctx' = [logctx EXCEPT ![t] = exit_context(@, scope.previous, scope.kwargs)]
    /\ scopes' = [scopes EXCEPT ![t] = SubSeq(@, 1, Len(@) - 1)]

----------------------------------------------------------------------------
(* Inputs *)

Texts == {<<>>, <<" ", " ">>, <<"a", "b">>}
Sources == {"", "s1"}
\* what a caller passes as (metadata, source): nothing, or both
DocInputs == {<<{}, "">>, <<{<<"topic", "x">>}, "s1">>}
TopKs == 0..MaxTopK
Thresholds == {0, 15, 16, 25}
SourceFilters == {{}, {"s1"}}

\* the constructor arguments a caller passes: the defaults, or its own
EngineArgs ==
    {[embedding_model |-> DefaultEmbeddingModel,
      chunk_size |-> DefaultChunkSize, chunk_overlap |-> DefaultChunkOverlap],
     [embedding_model |-> "nomic-embed-text", chunk_size |-> 2, chunk_overlap |-> 1]}

NoCall == Outcome("", 0, "", <<>>, FALSE, FALSE, {}, "", <<>>)

Threads == {"t1", "t2"}

Idle == [op |-> "", pc |-> "idle", chunks |-> <<>>, vectors |-> <<>>]

NoChunking ==
    [text |-> <<>>, chunk_size |-> 0, overlap |-> 0, done |-> FALSE, chunks |-> <<>>]

\* the parts of the state a sequential engine call does not touch
InitAside ==
    /\ thr = [t \in Threads |-> Idle]
    /\ db_open = TRUE
    /\ chunked = NoChunking
    /\ res = NoResources
    /\ rm = NoManager
    /\ logctx = [t \in Threads |-> NoContext]
    /\ scopes = [t \in Threads |-> <<>>]

aside == <<thr, db_open, chunked, resourceVars, loggingVars>>

----------------------------------------------------------------------------
(* Spec: the operations of one engine, from its construction on.           *)

Init ==
    \E a \in EngineArgs :
        LET made == RAGEngine_init(<<>>, 0, "r1", <<>>,
                                   a.embedding_model, a.chunk_size, a.chunk_overlap)
        IN  /\ fs = made.fs
            /\ eng = made.eng
            /\ now = 0
            /\ last = Outcome("__init__", 0, "", <<>>, FALSE, FALSE, {}, "r1", <<>>)
            /\ okRetrieves = 0
            /\ InitAside

DoAddDocument ==
    /\ \E text \in Texts, d \in DocInputs, db_ok \in BOOLEAN :
        \E reply \in EmbedReplies(
                Len(chunk_text(text, eng.chunker.chunk_size, eng.chunker.overlap)),
                {<<3, 4>>}) :
            AddDocument(text, d[1], d[2], reply, db_ok)
    /\ UNCHANGED aside

DoRetrieve ==
    /\ \E top_k \in {1}, threshold \in {0, 16}, source_filter \in {{}},
          reply \in EmbedReplies(1, {<<1, 0>>}), db_ok \in BOOLEAN :
        Retrieve(top_k, threshold, source_filter, reply, db_ok)
    /\ UNCHANGED aside

DoPurge == Purge /\ UNCHANGED aside

Next == DoAddDocument \/ DoRetrieve \/ DoPurge

Spec == Init /\ [][Next]_vars

----------------------------------------------------------------------------
(* SpecRuns: runs created, reloaded and used over time on one disk.        *)

RunIds == {"r1"}
BaseDirs == {<<>>, <<"cwd", "output">>}

InitRuns ==
    /\ fs = <<>>
    /\ eng = NoEngine
    /\ now = 0
    /\ last = NoCall
    /\ okRetrieves = 0
    /\ InitAside

RunConstruct ==
    /\ \E run_id \in RunIds, base_dir \in BaseDirs, a \in EngineArgs :
        Construct(run_id, base_dir, a.embedding_model, a.chunk_size, a.chunk_overlap)
    /\ UNCHANGED aside

RunLoad ==
    /\ \E run_id \in RunIds, base_dir \in BaseDirs : Load(run_id, base_dir)
    /\ UNCHANGED aside

RunAddDocument ==
    /\ eng.alive
    /\ \E reply \in EmbedReplies(
            Len(chunk_text(<<"a", "b">>, eng.chunker.chunk_size, eng.chunker.overlap)),
            {<<3, 4>>}) :
          AddDocument(<<"a", "b">>, {}, "", reply, TRUE)
    /\ UNCHANGED aside

RunRetrieve ==
    /\ \E reply \in EmbedReplies(1, {<<3, 4>>}) : Retrieve(1, 0, {}, reply, TRUE)
    /\ UNCHANGED aside

RunPurge == Purge /\ UNCHANGED aside

RunTick == Tick /\ UNCHANGED aside

NextRuns ==
    RunConstruct \/ RunLoad \/ RunAddDocument \/ RunRetrieve \/ RunPurge \/ RunTick

SpecRuns == InitRuns /\ [][NextRuns]_vars

----------------------------------------------------------------------------
(* Claims about one engine (Spec)                                          *)

\* C1: from construction onwards, every add_document call that stores a document
\* of n > 0 chunks finds the running counters in place and raises documents_added
\* by exactly 1 and chunks_added by exactly n.
C1_CountersFromConstruction ==
    [][(last'.op = "add_document" /\ last'.ret > 0) =>
          /\ eng.has_stats /\ eng'.has_stats
          /\ eng'.stats.documents_added = eng.stats.documents_added + 1
          /\ eng'.stats.chunks_added = eng.stats.chunks_added + last'.ret]_vars

\* C2: get_stats().query_count is the number of retrieve calls that returned since
\* construction or since the most recent purge, whichever is later.
C2_QueryCountCountsRetrieves == get_stats(fs, eng).query_count = okRetrieves

\* C3: right after purge() returns, the three in-memory counters are 0 and
\* get_stats() reports document_count, chunk_count and query_count 0.
C3_PurgeResetsEverything ==
    last.op = "purge" =>
        /\ eng.has_stats
        /\ eng.stats.documents_added = 0
        /\ eng.stats.chunks_added = 0
        /\ eng.stats.queries_performed = 0
        /\ get_stats(fs, eng).document_count = 0
        /\ get_stats(fs, eng).chunk_count = 0
        /\ get_stats(fs, eng).query_count = 0

C3_Witness == last.op = "purge" /\ eng.has_stats /\ db_file_exists(fs, eng.vector_dir)

\* C7: add_document changes the store and the counters only when it returns a
\* positive chunk count; blank text returns 0 with neither the provider nor the
\* store called; a provider failure raises the one embedding failure with nothing
\* stored and no counter changed.
C7_AddDocumentAllOrNothing ==
    [][\A text \in Texts, d \in DocInputs, db_ok \in BOOLEAN :
        \A reply \in EmbedReplies(
                Len(chunk_text(text, eng.chunker.chunk_size, eng.chunker.overlap)),
                {<<3, 4>>}) :
            AddDocument(text, d[1], d[2], reply, db_ok) =>
                /\ (last'.ret = 0 => fs' = fs /\ eng' = eng)
                /\ (\A i \in 1..Len(text) : text[i] = " ") =>
                      /\ last'.ret = 0 /\ last'.raised = ""
                      /\ ~last'.embed_called /\ ~last'.db_called
                /\ ((\E i \in 1..Len(text) : text[i] # " ") /\ ~reply.ok) =>
                      /\ last'.raised = "EmbeddingFailure"
                      /\ last'.ret = 0 /\ ~last'.db_called
                      /\ fs' = fs /\ eng' = eng]_vars

C7_Witness ==
    /\ last.op = "add_document" /\ last.raised = "EmbeddingFailure"
    /\ eng.has_stats /\ Len(Store(fs, eng)) > 0

----------------------------------------------------------------------------
(* Claims about runs on disk (SpecRuns)                                    *)

\* where the store of run run_id lives under base_dir
RunStoreDir(run_id, base_dir) ==
    (IF base_dir # <<>> THEN base_dir ELSE <<"cwd", "output">>) \o <<run_id, "vectors">>

\* C4: once persisted, every field of a run's sidecar keeps its value under any
\* later add_document, retrieve, purge and load of that run.
C4_SidecarImmutable ==
    [][last'.op \in {"add_document", "retrieve", "purge", "load"} =>
          \A d \in DOMAIN fs :
              (/\ fs[d].meta_exists
               /\ last'.op = "load" => last'.run_id = fs[d].meta.run_id)
              => /\ d \in DOMAIN fs'
                 /\ fs'[d].meta_exists
                 /\ fs'[d].meta = fs[d].meta]_vars

\* C5: after RAGEngine(run_id, base_dir, model, size, overlap), load(run_id, base_dir)
\* finds the run and returns an engine on the same vector directory with the same
\* embedding_model, chunk_size and chunk_overlap.
C5_LoadRoundTrip ==
    [][\A run_id \in RunIds, base_dir \in BaseDirs :
          LET dir == init_vector_dir(run_id, base_dir)
          IN  (/\ last'.op = "load" /\ last'.run_id = run_id /\ last'.base_dir = base_dir
               /\ config_file_exists(fs, dir) /\ fs[dir].meta.run_id = run_id
               /\ db_file_exists(fs, dir))
              => /\ last'.raised = ""
                 /\ eng'.vector_dir = dir
                 /\ eng'.embedder = fs[dir].meta.embedding_model
                 /\ eng'.chunker.chunk_size = fs[dir].meta.chunk_size
                 /\ eng'.chunker.overlap = fs[dir].meta.chunk_overlap]_vars

\* C6: load of a run whose vector store does not exist fails with the not-found
\* error and creates or modifies nothing: the disk and the engine held are as before.
C6_LoadMissingRunTouchesNothing ==
    [][(/\ last'.op = "load"
        /\ ~db_file_exists(fs, RunStoreDir(last'.run_id, last'.base_dir)))
       => /\ last'.raised = "FileNotFoundError"
          /\ fs' = fs
          /\ eng' = eng]_vars

C6_Witness ==
    /\ last.op = "load" /\ last.raised = "FileNotFoundError"
    /\ last.base_dir # <<>> /\ DOMAIN fs # {}

----------------------------------------------------------------------------
(* SpecConcurrent: threads calling add_document, retrieve and purge on one *)
(* engine instance.  The engine takes no lock, so a call is a sequence of  *)
(* steps that other threads' steps may come between: the provider round    *)
(* trip, the store operation through whatever handle self.vector_db holds  *)
(* at that moment, the counter update; and for purge its four statements.  *)

\* what no step of a concurrent call touches
outside == <<now, last, okRetrieves, chunked, resourceVars, loggingVars>>

Calling(t, op, pc) == thr[t].op = op /\ thr[t].pc = pc

Goto(t, pc) == thr' = [thr EXCEPT ![t].pc = pc]

Return(t) == thr' = [thr EXCEPT ![t] = Idle]

\* chunks of add_document calls that are on their way to the store
InFlightChunks ==
    LET F[S \in SUBSET Threads] ==
            IF S = {} THEN 0
            ELSE LET t == CHOOSE x \in S : TRUE
                 IN  (IF thr[t].op = "add_document" THEN Len(thr[t].chunks) ELSE 0)
                     + F[S \ {t}]
    IN  F[Threads]

\* add_document up to the provider request: blank text returns at once
AddDocument_begin(t, text) ==
    LET chunks == chunk_text(text, eng.chunker.chunk_size, eng.chunker.overlap)
    IN  /\ Calling(t, "", "idle")
        /\ Len(Store(fs, eng)) + InFlightChunks + Len(chunks) <= MaxChunks
        /\ IF is_empty_document(text) \/ chunks = <<>>
           THEN UNCHANGED thr
           ELSE thr' = [thr EXCEPT ![t] = [op |-> "add_document", pc |-> "embed",
                                           chunks |-> chunks, vectors |-> <<>>]]
        /\ UNCHANGED <<fs, eng, db_open, outside>>

\* self.embedder.embed_texts(chunks) returns, or raises and ends the call
AddDocument_embed(t, reply) ==
    /\ Calling(t, "add_document", "embed")
    /\ IF embed_texts(thr[t].chunks, reply).ok
       THEN thr' = [thr EXCEPT ![t].pc = "store", ![t].vectors = reply.vectors]
       ELSE Return(t)
    /\ UNCHANGED <<fs, eng, db_open, outside>>

\* self.vector_db.add_document(...): on a closed handle it raises and ends the call
AddDocument_store(t) ==
    /\ Calling(t, "add_document", "store")
    /\ IF db_open /\ db_file_exists(fs, eng.vector_dir)
       THEN /\ fs' = [fs EXCEPT ![eng.vector_dir].db =
                        db_add_document(Store(fs, eng), thr[t].chunks, thr[t].vectors, {}, "")]
            /\ Goto(t, "count")
       ELSE /\ Return(t)
            /\ UNCHANGED fs
    /\ UNCHANGED <<eng, db_open, outside>>

\* the guarded counter update, then return len(chunks)
AddDocument_count(t) ==
    /\ Calling(t, "add_document", "count")
    /\ eng' = IF eng.has_stats
              THEN [eng EXCEPT !.stats = count_document(@, Len(thr[t].chunks))]
              ELSE eng
    /\ Return(t)
    /\ UNCHANGED <<fs, db_open, outside>>

\* retrieve up to the provider request
Retrieve_begin(t) ==
    /\ Calling(t, "", "idle")
    /\ eng.stats.queries_performed < MaxQueries
    /\ thr' = [thr EXCEPT ![t] = [op |-> "retrieve", pc |-> "embed",
                                  chunks |-> <<>>, vectors |-> <<>>]]
    /\ UNCHANGED <<fs, eng, db_open, outside>>

\* self.embedder.embed_text(query) returns, or raises and ends the call
Retrieve_embed(t, reply) ==
    /\ Calling(t, "retrieve", "embed")
    /\ IF reply.ok
       THEN thr' = [thr EXCEPT ![t].pc = "store", ![t].vectors = reply.vectors]
       ELSE Return(t)
    /\ UNCHANGED <<fs, eng, db_open, outside>>

\* self.vector_db.search(...): on a closed handle it raises and ends the call
Retrieve_search(t) ==
    /\ Calling(t, "retrieve", "store")
    /\ IF db_open /\ db_file_exists(fs, eng.vector_dir)
       THEN Goto(t, "count")
       ELSE Return(t)
    /\ UNCHANGED <<fs, eng, db_open, outside>>

\* the guarded counter update, then return results
Retrieve_count(t) ==
    /\ Calling(t, "retrieve", "count")
    /\ eng' = IF eng.has_stats THEN [eng EXCEPT !.stats = count_query(@)] ELSE eng
    /\ Return(t)
    /\ UNCHANGED <<fs, db_open, outside>>

\* purge: self.vector_db.close()
Purge_close(t) ==
    /\ Calling(t, "", "idle")
    /\ db_open' = FALSE
    /\ thr' = [thr EXCEPT ![t] = [op |-> "purge", pc |-> "unlink",
                                  chunks |-> <<>>, vectors |-> <<>>]]
    /\ UNCHANGED <<fs, eng, outside>>

\* purge: if db_path.exists(): db_path.unlink()
Purge_unlink(t) ==
    /\ Calling(t, "purge", "unlink")
    /\ fs' = unlink_database(fs, eng.vector_dir)
    /\ Goto(t, "recreate")
    /\ UNCHANGED <<eng, db_open, outside>>

\* purge: self.vector_db = VectorDatabase(db_path)
Purge_recreate(t) ==
    /\ Calling(t, "purge", "recreate")
    /\ fs' = open_database(fs, eng.vector_dir)
    /\ db_open' = TRUE
    /\ Goto(t, "reset")
    /\ UNCHANGED <<eng, outside>>

\* purge: self.stats = {...}, and return
Purge_reset(t) ==
    /\ Calling(t, "purge", "reset")
    /\ eng' = [eng EXCEPT !.has_stats = TRUE, !.stats = purge_stats]
    /\ Return(t)
    /\ UNCHANGED <<fs, db_open, outside>>

InitConcurrent == Init

NextConcurrent ==
    \E t \in Threads :
        \/ \E text \in Texts : AddDocument_begin(t, text)
        \/ \E reply \in EmbedReplies(Len(thr[t].chunks), {<<3, 4>>}) :
              AddDocument_embed(t, reply)
        \/ AddDocument_store(t)
        \/ AddDocument_count(t)
        \/ Retrieve_begin(t)
        \/ \E reply \in EmbedReplies(1, {<<1, 0>>}) : Retrieve_embed(t, reply)
        \/ Retrieve_search(t)
        \/ Retrieve_count(t)
        \/ Purge_close(t)
        \/ Purge_unlink(t)
        \/ Purge_recreate(t)
        \/ Purge_reset(t)

SpecConcurrent == InitConcurrent /\ [][NextConcurrent]_vars

\* thread t is inside purge, past the close and before purge has returned
PurgeUnderWay(t) == thr[t].op = "purge" /\ thr[t].pc \in {"unlink", "recreate", "reset"}

\* thread t performs its store operation in this step
UsesStore(t) == thr[t].pc = "store" /\ thr'[t].pc # "store"

\* C8: purge has exclusive access: no add_document or retrieve of another caller
\* performs its store operation while a purge is under way, that is on the closed
\* handle, on the deleted file, or on the recreated store before purge has returned.
C8_PurgeIsExclusive ==
    [][\A t \in Threads :
          UsesStore(t) => ~\E u \in Threads \ {t} : PurgeUnderWay(u)]_vars

----------------------------------------------------------------------------
(* SpecRetrieve: retrieve on an engine whose store holds any documents.    *)

\* the store after n one-chunk documents whose embeddings and sources are
\* embs[1..n] and srcs[1..n]
RECURSIVE Stored(_, _, _)
Stored(embs, srcs, n) ==
    IF n = 0 THEN <<>>
    ELSE db_add_document(Stored(embs, srcs, n - 1), <<<<"a", "b">>>>, <<embs[n]>>,
                         prepare_metadata({}, srcs[n]), srcs[n])

InitRetrieve ==
    \E n \in 0..MaxStored :
        \E embs \in [1..n -> Vectors], srcs \in [1..n -> Sources] :
            LET made == RAGEngine_init(<<>>, 0, "r1", <<>>, DefaultEmbeddingModel,
                                       DefaultChunkSize, DefaultChunkOverlap)
            IN  /\ fs = [made.fs EXCEPT ![made.eng.vector_dir].db = Stored(embs, srcs, n)]
                /\ eng = made.eng
                /\ now = 0
                /\ last = Outcome("__init__", 0, "", <<>>, FALSE, FALSE, {}, "r1", <<>>)
                /\ okRetrieves = 0
                /\ InitAside

SearchRetrieve ==
    /\ last.op = "__init__"
    /\ \E top_k \in TopKs, threshold \in Thresholds, source_filter \in SourceFilters,
          reply \in EmbedReplies(1, Vectors), db_ok \in BOOLEAN :
        Retrieve(top_k, threshold, source_filter, reply, db_ok)
    /\ UNCHANGED aside

NextRetrieve == SearchRetrieve

SpecRetrieve == InitRetrieve /\ [][NextRetrieve]_vars

\* C9: retrieve(query, top_k=k, threshold=t) returns at most k results, each with
\* score >= t, in descending order of score; when every stored similarity is below
\* t it returns the empty list and raises nothing.
C9_RetrieveBoundedRanked ==
    (last.op = "retrieve" /\ last.raised = "") =>
        LET r == last.results
            store == Store(fs, eng)
        IN  /\ Len(r) <= last.top_k
            /\ \A i \in 1..Len(r) : r[i].score >= last.threshold
            /\ \A i \in 1..Len(r) : \A j \in 1..Len(r) : i < j => r[i].score >= r[j].score
            /\ (\A i \in 1..Len(store) :
                    cosine_similarity(last.query_embedding, store[i].embedding)
                        < last.threshold) => r = <<>>

C9_Witness ==
    /\ last.op = "retrieve" /\ last.raised = ""
    /\ Len(last.results) = 2
    /\ last.results[1].score > last.results[2].score
    /\ last.threshold > 0
    /\ last.top_k = 2
    /\ Len(Store(fs, eng)) = 3

----------------------------------------------------------------------------
(* SpecChunker: the chunker applied to any text and any valid parameters.  *)

Chars == {"a", "b", " "}

ChunkerTexts == UNION {[1..n -> Chars] : n \in 0..MaxTextLen}

InitChunker ==
    /\ fs = <<>>
    /\ eng = NoEngine
    /\ now = 0
    /\ last = NoCall
    /\ okRetrieves = 0
    /\ thr = [t \in Threads |-> Idle]
    /\ db_open = TRUE
    /\ res = NoResources
    /\ rm = NoManager
    /\ logctx = [t \in Threads |-> NoContext]
    /\ scopes = [t \in Threads |-> <<>>]
    /\ \E text \in ChunkerTexts, chunk_size \in 1..MaxChunkSize :
          \E overlap \in 0..(chunk_size - 1) :
              chunked = [text |-> text, chunk_size |-> chunk_size, overlap |-> overlap,
                         done |-> FALSE, chunks |-> <<>>]

\* chunker.chunk_text(text) on a chunker made with chunk_size and overlap
Chunk ==
    /\ ~chunked.done
    /\ chunked' = [chunked EXCEPT
                     !.done = TRUE,
                     !.chunks = chunk_text(chunked.text, chunked.chunk_size, chunked.overlap)]
    /\ UNCHANGED <<engineVars, thr, db_open, resourceVars, loggingVars>>

NextChunker == Chunk

SpecChunker == InitChunker /\ [][NextChunker]_vars

----------------------------------------------------------------------------
(* SpecChunkCount: the chunker the engine builds by default                *)
(* (chunk_size 512, overlap 50) applied to texts of every length.          *)

\* a text of the given length: words, or nothing but spaces
TextOfLength(n, blank) ==
    [i \in 1..n |-> IF blank THEN " " ELSE <<"a", "b", "c", "d", "e">>[(i % 5) + 1]]

InitChunkCount ==
    /\ fs = <<>>
    /\ eng = NoEngine
    /\ now = 0
    /\ last = NoCall
    /\ okRetrieves = 0
    /\ thr = [t \in Threads |-> Idle]
    /\ db_open = TRUE
    /\ res = NoResources
    /\ rm = NoManager
    /\ logctx = [t \in Threads |-> NoContext]
    /\ scopes = [t \in Threads |-> <<>>]
    /\ \E n \in 0..MaxLength, blank \in BOOLEAN :
          chunked = [text |-> TextOfLength(n, blank),
                     chunk_size |-> DefaultChunkSize, overlap |-> DefaultChunkOverlap,
                     done |-> FALSE, chunks |-> <<>>]

SpecChunkCount == InitChunkCount /\ [][Chunk]_vars

CeilDiv(a, b) == (a + b - 1) \div b

\* the start (0-based) of the k-th window of the walk
WindowStart(k) == (k - 1) * (chunked.chunk_size - chunked.overlap)

\* the chunks, in sequence order, are the text's characters at the windows'
\* positions, every position of the text lies in one of them, and the last
\* chunk ends with the last character
CoversText ==
    LET text == chunked.text
        chunks == chunked.chunks
    IN  /\ \A k \in 1..Len(chunks) :
              chunks[k] = SubSeq(text, WindowStart(k) + 1, WindowStart(k) + Len(chunks[k]))
        /\ \A p \in 1..Len(text) :
              \E k \in 1..Len(chunks) :
                  WindowStart(k) < p /\ p <= WindowStart(k) + Len(chunks[k])
        /\ Len(chunks) > 0 =>
              WindowStart(Len(chunks)) + Len(chunks[Len(chunks)]) = Len(text)

----------------------------------------------------------------------------
(* SpecResources: a ResourceSet as the collector returns it, handed to     *)
(* process_sources or to the deduplication and truncation stages.          *)

UrlIds == <<"http://u1", "http://u2", "http://u3", "http://u4">>
FilePaths == <<<<"docs", "f1.md">>, <<"docs", "f2.md">>, <<"docs", "f3.md">>>>

\* 100 characters; 15000 characters, the first 100 as in page; 98 characters
\* that differ from page in case and in whitespace only; whitespace only
Contents ==
    [page |-> <<<<" ", 1>>, <<"a", 40>>, <<" ", 2>>, <<"b", 57>>>>,
     long |-> <<<<" ", 1>>, <<"a", 40>>, <<" ", 2>>, <<"b", 57>>, <<"y", 14900>>>>,
     variant |-> <<<<"A", 40>>, <<"\t", 1>>, <<"B", 57>>>>,
     blank |-> <<<<" ", 2>>>>]

\* the data of an entry as the data model has it: {"content": <a string>}
Datas ==
    {[kind |-> "str", content |-> c, has_title |-> FALSE, title |-> ""] :
        c \in {<<>>, Contents.blank, Contents.page, Contents.long, Contents.variant}}

\* the data of a malformed entry: {"content": None}, {}
MalformedDatas ==
    {[kind |-> k, content |-> <<>>, has_title |-> FALSE, title |-> ""] :
        k \in {"null", "missing"}}

Entry(id, data) == [id |-> id] @@ data

\* the mappings of n entries, in insertion order
Mappings(ids, n, D) == {[i \in 1..n |-> Entry(ids[i], datas[i])] : datas \in [1..n -> D]}

\* a manager made with max_content_length, and what its collector returned
Collected(D, StatsFlags) ==
    /\ fs = <<>>
    /\ eng = NoEngine
    /\ now = 0
    /\ last = NoCall
    /\ okRetrieves = 0
    /\ thr = [t \in Threads |-> Idle]
    /\ db_open = TRUE
    /\ chunked = NoChunking
    /\ logctx = [t \in Threads |-> NoContext]
    /\ scopes = [t \in Threads |-> <<>>]
    /\ \E n \in 0..MaxUrls, m \in 0..MaxFiles :
          \E urls \in Mappings(UrlIds, n, D), files \in Mappings(FilePaths, m, D),
             has_stats \in StatsFlags, max_content_length \in {SignatureLength, DefaultMaxContentLength} :
              /\ res = [urls |-> urls, files |-> files, has_stats |-> has_stats,
                        stats |-> {}, keywords |-> <<>>]
              /\ rm = [NoManager EXCEPT !.max_content_length = max_content_length,
                                        !.collected = res]

NextResources ==
    \/ /\ Len(rm.ops) < MaxOps
       /\ \A i \in 1..Len(rm.ops) : rm.ops[i].op \in {"dedup", "truncate"}
       /\ Deduplicate
       /\ UNCHANGED <<engineVars, thr, db_open, chunked, loggingVars>>
    \/ /\ Len(rm.ops) < MaxOps
       /\ \A i \in 1..Len(rm.ops) : rm.ops[i].op \in {"dedup", "truncate"}
       /\ Truncate
       /\ UNCHANGED <<engineVars, thr, db_open, chunked, loggingVars>>
    \/ /\ rm.ops = <<>>
       /\ \E deduplicate \in BOOLEAN : ProcessSources(deduplicate)
       /\ UNCHANGED <<engineVars, thr, db_open, chunked, loggingVars>>

SpecResources == Collected(Datas, {TRUE}) /\ [][NextResources]_vars

\* SpecMalformed: the same calls on ResourceSets that may hold malformed entries
\* and may lack the stats mapping.
SpecMalformed == Collected(Datas \cup MalformedDatas, BOOLEAN) /\ [][NextResources]_vars

----------------------------------------------------------------------------
(* Claims about deduplication and truncation (SpecResources, SpecMalformed) *)

LastCall == rm.ops[Len(rm.ops)]

\* the last call was op and returned
Returned(op) == rm.ops # <<>> /\ LastCall = Called(op, "")

DuplicatesRemoved(R) == MapGet(R.stats, "duplicates_removed", -1)

\* the entries of a mapping at the positions in I, in the mapping's order
RECURSIVE EntriesAt(_, _, _)
EntriesAt(entries, I, i) ==
    IF i > Len(entries) THEN <<>>
    ELSE (IF i \in I THEN <<entries[i]>> ELSE <<>>) \o EntriesAt(entries, I, i + 1)

\* the signature as the specification words it: the first 100 characters,
\* lowercased, whitespace runs collapsed, trimmed
ClaimedSignature(text) == RStrip(RCollapse(RLower(RTake(text, SignatureLength))))

\* C12: deduplicating the result of a deduplication leaves the urls and files
\* mappings as the first pass left them and sets duplicates_removed to 0.
C12_DedupIdempotent ==
    (/\ Len(rm.ops) >= 2
     /\ rm.ops[Len(rm.ops) - 1] = Called("dedup", "")
     /\ Returned("dedup"))
        => /\ res.urls = rm.arg.urls
           /\ res.files = rm.arg.files
           /\ DuplicatesRemoved(res) = 0

C12_Witness ==
    /\ rm.ops = <<Called("dedup", ""), Called("dedup", "")>>
    /\ Len(rm.collected.urls) = 2
    /\ Len(rm.collected.files) = 1
    /\ Len(res.urls) = 1
    /\ DuplicatesRemoved(res) = 0

\* the positions the claim has retained: non-empty content, and a signature that
\* no earlier entry of the mapping has
ClaimedRetained(entries) ==
    {i \in 1..Len(entries) :
        /\ entries[i].content # <<>>
        /\ \A j \in 1..(i - 1) :
              ClaimedSignature(entries[j].content) # ClaimedSignature(entries[i].content)}

\* the same, an earlier entry counting only when its content is non-empty
RetainedAmongNonEmpty(entries) ==
    {i \in 1..Len(entries) :
        /\ entries[i].content # <<>>
        /\ \A j \in 1..(i - 1) :
              entries[j].content # <<>> =>
                  ClaimedSignature(entries[j].content) # ClaimedSignature(entries[i].content)}

\* two URL entries with the same first 100 characters and different suffixes, alone
TwoUrlsSharingPrefix(R) ==
    /\ Len(R.urls) = 2
    /\ R.files = <<>>
    /\ R.urls[1].content # R.urls[2].content
    /\ RTake(R.urls[1].content, SignatureLength) = RTake(R.urls[2].content, SignatureLength)

\* C13 as stated: after deduplication each namespace retains exactly the entries
\* with non-empty content whose signature occurs on no earlier entry of the same
\* namespace, in their original order (so never because of the other namespace),
\* and two URL entries sharing their first 100 characters leave one entry with
\* duplicates_removed = 1.
C13_RetainedEntries ==
    Returned("dedup") =>
        /\ res.urls = EntriesAt(rm.arg.urls, ClaimedRetained(rm.arg.urls), 1)
        /\ res.files = EntriesAt(rm.arg.files, ClaimedRetained(rm.arg.files), 1)
        /\ TwoUrlsSharingPrefix(rm.arg) =>
              Len(res.urls) = 1 /\ DuplicatesRemoved(res) = 1

\* C13 amended: after deduplication each namespace retains exactly the entries
\* with non-empty content whose signature occurs on no earlier entry with
\* non-empty content of the same namespace, in their original order, and two URL
\* entries sharing their first 100 characters leave one entry with
\* duplicates_removed = 1.
C13_RetainedAmongNonEmpty ==
    Returned("dedup") =>
        /\ res.urls = EntriesAt(rm.arg.urls, RetainedAmongNonEmpty(rm.arg.urls), 1)
        /\ res.files = EntriesAt(rm.arg.files, RetainedAmongNonEmpty(rm.arg.files), 1)
        /\ TwoUrlsSharingPrefix(rm.arg) =>
              Len(res.urls) = 1 /\ DuplicatesRemoved(res) = 1

\* a near-duplicate URL is discarded while the file with the same signature stays
C13_Witness ==
    /\ rm.ops = <<Called("dedup", "")>>
    /\ Len(rm.arg.urls) = 2
    /\ rm.arg.urls[1].content = Contents.variant
    /\ rm.arg.urls[2].content = Contents.long
    /\ Len(rm.arg.files) = 1
    /\ rm.arg.files[1].content = Contents.page
    /\ Len(res.urls) = 1
    /\ res.urls[1].id = UrlIds[1]
    /\ Len(res.files) = 1
    /\ DuplicatesRemoved(res) = 1

\* every entry of `entries` is the entry of `before` with the same id, its content
\* cut to max_content_length characters plus the suffix if it was longer and left
\* as it was otherwise
AllWithinCap(entries, before) ==
    \A i \in 1..Len(entries) :
        /\ RLen(entries[i].content) <= rm.max_content_length + RLen(TruncationSuffix)
        /\ \E j \in 1..Len(before) :
              /\ before[j].id = entries[i].id
              /\ IF RLen(before[j].content) > rm.max_content_length
                 THEN entries[i].content =
                          RTake(before[j].content, rm.max_content_length) \o TruncationSuffix
                 ELSE entries[i] = before[j]

\* C14: after process_sources, with or without deduplication, every resource has
\* content of length <= max_content_length + len("... [content truncated]"):
\* longer content has become its first max_content_length characters followed by
\* the suffix, content of length <= max_content_length is untouched.
C14_ContentWithinCap ==
    (Returned("process_sources") \/ Returned("process_sources_no_dedup")) =>
        /\ AllWithinCap(res.urls, rm.arg.urls)
        /\ AllWithinCap(res.files, rm.arg.files)
        /\ Returned("process_sources_no_dedup") =>
              Len(res.urls) = Len(rm.arg.urls) /\ Len(res.files) = Len(rm.arg.files)

\* content of length 15000 with the cap 10000 comes out 10000 + 23 long
C14_Witness ==
    /\ Returned("process_sources_no_dedup")
    /\ rm.max_content_length = 10000
    /\ Len(res.urls) = 2
    /\ RLen(rm.arg.urls[1].content) = 15000
    /\ RLen(res.urls[1].content) = 10023
    /\ res.urls[2].content = Contents.page

\* C15: _deduplicate_resources and _truncate_content never raise, whatever the
\* ResourceSet holds (content missing, empty or null, no stats mapping).
C15_NeverRaise ==
    \A i \in 1..Len(rm.ops) :
        rm.ops[i].op \in {"dedup", "truncate"} => rm.ops[i].raised = ""

\* the two stages applied to the collected ResourceSet in the given order
RECURSIVE Staged(_, _)
Staged(R, stages) ==
    IF stages = <<>> THEN [res |-> R, raised |-> ""]
    ELSE LET first == IF Head(stages) = "dedup" THEN deduplicate_resources(R)
                      ELSE truncate_content(R, rm.max_content_length)
         IN  IF first.raised # "" THEN first ELSE Staged(first.res, Tail(stages))

\* C17: for max_content_length >= 100, deduplication then truncation and
\* truncation then deduplication yield the same retained ids, the same
\* contents and the same duplicates_removed.
C17_OrderIndependent ==
    \A order \in {<<"dedup", "truncate">>, <<"truncate", "dedup">>} :
        (/\ rm.max_content_length >= 100
         /\ rm.ops = <<Called(order[1], ""), Called(order[2], "")>>)
            => LET other == Staged(rm.collected, <<order[2], order[1]>>)
               IN  /\ other.raised = ""
                   /\ other.res.urls = res.urls
                   /\ other.res.files = res.files
                   /\ DuplicatesRemoved(other.res) = DuplicatesRemoved(res)

\* C18: after _deduplicate_resources, duplicates_removed is the number of URL
\* entries that went in minus the number retained, plus the same for files, so
\* entries dropped for empty content are counted too.
C18_DuplicatesRemovedCountsAllDropped ==
    Returned("dedup") =>
        DuplicatesRemoved(res) =
            (Len(rm.arg.urls) - Len(res.urls)) + (Len(rm.arg.files) - Len(res.files))

\* nothing but empty entries was dropped, in both namespaces, and all are counted
C18_Witness ==
    /\ rm.ops = <<Called("dedup", "")>>
    /\ Len(rm.arg.urls) = 2
    /\ rm.arg.urls[1].content = <<>>
    /\ rm.arg.urls[2].content = Contents.page
    /\ Len(rm.arg.files) = 1
    /\ rm.arg.files[1].content = <<>>
    /\ Len(res.urls) = 1
    /\ res.files = <<>>
    /\ DuplicatesRemoved(res) = 2

----------------------------------------------------------------------------
(* SpecContext: a ResourceSet handed to the two context assemblers.        *)

\* 15000 characters under a title; 500 characters, untitled; no content; None
ContextDatas ==
    {[kind |-> "str", content |-> Contents.long, has_title |-> TRUE, title |-> "Guide"],
     [kind |-> "str", content |-> <<<<"c", ContextContentLimit>>>>,
      has_title |-> FALSE, title |-> ""],
     [kind |-> "missing", content |-> <<>>, has_title |-> FALSE, title |-> ""],
     [kind |-> "null", content |-> <<>>, has_title |-> FALSE, title |-> ""]}

MaxItemsArgs == {-1, 0, 1, DefaultMaxItems}

InitContext ==
    /\ fs = <<>>
    /\ eng = NoEngine
    /\ now = 0
    /\ last = NoCall
    /\ okRetrieves = 0
    /\ thr = [t \in Threads |-> Idle]
    /\ db_open = TRUE
    /\ chunked = NoChunking
    /\ logctx = [t \in Threads |-> NoContext]
    /\ scopes = [t \in Threads |-> <<>>]
    /\ \E n \in 0..MaxUrls, m \in 0..MaxFiles :
          \E urls \in Mappings(UrlIds, n, ContextDatas),
             files \in Mappings(FilePaths, m, ContextDatas),
             k \in {0, KeywordLimit + 1}, markdown_available \in BOOLEAN :
              /\ res = [urls |-> urls, files |-> files, has_stats |-> TRUE,
                        stats |-> {}, keywords |-> [i \in 1..k |->
                                        [n |-> i, words |-> <<"deep", " ", "learning">>]]]
              /\ rm = [NoManager EXCEPT !.max_content_length = DefaultMaxContentLength,
                                        !.markdown_available = markdown_available,
                                        !.collected = res]

NextContext ==
    \/ /\ rm.ops = <<>>
       /\ \E max_items \in MaxItemsArgs : ExtractContext(max_items)
       /\ UNCHANGED <<engineVars, thr, db_open, chunked, loggingVars>>
    \/ /\ rm.ops = <<>>
       /\ \E max_items \in MaxItemsArgs : ExtractContextForPrompt(max_items)
       /\ UNCHANGED <<engineVars, thr, db_open, chunked, loggingVars>>

SpecContext == InitContext /\ [][NextContext]_vars

\* the entries the context lists for a section
Listed(section) ==
    SelectSeq(rm.output, LAMBDA p : p.kind = "entry" /\ p.section = section)

\* the listed entries are the first ones of the mapping, no more than max_items,
\* each with its content cut to 500 characters plus an ellipsis if it was longer
ListsFirst(section, entries) ==
    LET listed == Listed(section)
    IN  /\ Len(listed) <= rm.max_items
        /\ Len(listed) = Min(rm.max_items, Len(entries))
        /\ \A i \in 1..Len(listed) :
              LET content == IF entries[i].kind = "str" THEN entries[i].content ELSE <<>>
              IN  /\ listed[i].title = shown_title(section, entries[i])
                  /\ listed[i].content =
                        IF RLen(content) > 500
                        THEN RCat(RTake(content, 500), <<<<".", 3>>>>)
                        ELSE content
                  /\ RLen(listed[i].content) <= 500 + 3

\* C16: for max_items >= 0, the context that extract_context and
\* extract_context_for_prompt assemble lists at most max_items URL entries and at
\* most max_items file entries, the first ones of each namespace in insertion
\* order, each with at most the first 500 characters of its content and an
\* ellipsis when it was longer, lists at most the first 20 keywords, and the
\* ResourceSet passed in is not modified.
C16_ContextWithinLimits ==
    ((Returned("extract_context") \/ Returned("extract_context_for_prompt"))
      /\ rm.max_items >= 0)
        => /\ ListsFirst("urls", rm.arg.urls)
           /\ ListsFirst("files", rm.arg.files)
           /\ LET shown == SelectSeq(rm.output, LAMBDA p : p.kind = "keywords")
              IN  /\ Len(shown) <= 1
                  /\ \A j \in 1..Len(shown) :
                        /\ Len(shown[j].items) <= 20
                        /\ \A i \in 1..Len(shown[j].items) :
                              shown[j].items[i].text = rm.arg.keywords[i]
           /\ res = rm.arg
           /\ res = rm.collected

\* two URL entries, one listed, its 15000 characters shown as 500 and an
\* ellipsis, and 20 of 21 keywords
C16_Witness ==
    /\ Returned("extract_context_for_prompt")
    /\ rm.markdown_available
    /\ rm.max_items = 1
    /\ Len(res.urls) = 2
    /\ Len(res.keywords) = 21
    /\ Len(Listed("urls")) = 1
    /\ RLen(res.urls[1].content) = 15000
    /\ RLen(Listed("urls")[1].content) = 503
    /\ \E i \in 1..Len(rm.output) :
          rm.output[i].kind = "keywords" /\ Len(rm.output[i].items) = 20

----------------------------------------------------------------------------
(* Claims about the caller's arguments (Spec)                              *)

\* C19: add_document called with a non-empty metadata mapping and a source leaves
\* the mapping the caller passed with the keys and values it had before the
\* call, whether the call succeeds or fails.
C19_CallerMetadataUnchanged ==
    [][\A text \in Texts, d \in DocInputs, db_ok \in BOOLEAN :
        \A reply \in EmbedReplies(
                Len(chunk_text(text, eng.chunker.chunk_size, eng.chunker.overlap)),
                {<<3, 4>>}) :
            (AddDocument(text, d[1], d[2], reply, db_ok) /\ d[1] # {} /\ d[2] # "")
                => last'.caller_metadata = d[1]]_vars

----------------------------------------------------------------------------
(* SpecLogging: threads setting, clearing and scoping their logging context *)

ContextArgs == {{<<"run", "r1">>}, {<<"run", "r2">>, <<"op", "add">>}}

InitLogging ==
    /\ fs = <<>>
    /\ eng = NoEngine
    /\ now = 0
    /\ last = NoCall
    /\ okRetrieves = 0
    /\ thr = [t \in Threads |-> Idle]
    /\ db_open = TRUE
    /\ chunked = NoChunking
    /\ res = NoResources
    /\ rm = NoManager
    /\ logctx = [t \in Threads |-> NoContext]
    /\ scopes = [t \in Threads |-> <<>>]

\* the with_context blocks open in all threads
RECURSIVE OpenBlocks(_)
OpenBlocks(T) ==
    IF T = {} THEN 0
    ELSE LET t == CHOOSE u \in T : TRUE IN Len(scopes[t]) + OpenBlocks(T \ {t})

NextLogging ==
    \E t \in Threads :
        \/ \E kwargs \in ContextArgs : SetContext(t, kwargs) /\ UNCHANGED <<engineVars, thr, db_open, chunked, resourceVars>>
        \/ ClearContext(t) /\ UNCHANGED <<engineVars, thr, db_open, chunked, resourceVars>>
        \/ /\ OpenBlocks(Threads) < MaxBlocks
           /\ \E kwargs \in ContextArgs : WithEnter(t, kwargs)
           /\ UNCHANGED <<engineVars, thr, db_open, chunked, resourceVars>>
        \/ WithExit(t) /\ UNCHANGED <<engineVars, thr, db_open, chunked, resourceVars>>

SpecLogging == InitLogging /\ [][NextLogging]_vars

\* C20: when a thread leaves a with_context block its logging context is what it
\* was when it entered the block, whatever blocks were nested and whatever
\* set_context calls were made inside, and entering or leaving a block never
\* changes the logging context of another thread.
C20_WithContextRestores ==
    [][\A t \in Threads :
        /\ Len(scopes'[t]) < Len(scopes[t]) =>
              context_of(logctx'[t]) = scopes[t][Len(scopes[t])].entered
        /\ Len(scopes'[t]) # Len(scopes[t]) =>
              \A u \in Threads \ {t} : logctx'[u] = logctx[u]]_vars

\* a thread is back in its outer block, whose value of "run" the inner block had
\* overwritten and whose context a set_context inside had extended, while the
\* other thread keeps a context of its own
C20_Witness ==
    \E t \in Threads, u \in Threads :
        /\ t # u
        /\ Len(scopes[t]) = 1
        /\ scopes[t][1].kwargs = {<<"run", "r1">>}
        /\ scopes[t][1].entered = {}
        /\ context_of(logctx[t]) = {<<"run", "r1">>}
        /\ context_of(logctx[u]) = {<<"run", "r2">>, <<"op", "add">>}
        /\ scopes[u] = <<>>

====
